---------------------------- MODULE Spec2Model ----------------------------
(***************************************************************************)
(* Model of srv/salt/_modules/keystone.py: the salt execution module that *)
(* wraps the OpenStack Identity (keystone v3) client.                     *)
(*                                                                         *)
(* The state is the configuration store read by auth(), the state of the  *)
(* remote identity service (users, projects, roles, services, endpoints,  *)
(* EC2 credentials, role assignments) and the record of the last public   *)
(* operation that ran: its arguments, the value it returned or the        *)
(* exception it raised, the client calls it delegated and the             *)
(* authentications it performed.  pending is an endpoint_create that one  *)
(* caller has started and not finished, for the runs in which other       *)
(* callers' operations come between its round trips.                      *)
(*                                                                         *)
(* Python values: None is the string "None" for string-valued things and  *)
(* 0 for identifiers; booleans are the strings "True" and "False" so that *)
(* a three-valued parameter (enabled=None) has one type.                  *)
(***************************************************************************)
EXTENDS Integers, Sequences, FiniteSets, TLC

VARIABLES config, remote, last, pending

vars == <<config, remote, last, pending>>

(***************************************************************************)
(* Bounds of the model.                                                    *)
(***************************************************************************)
\* identifiers the remote service hands out per entity kind
MaxId == 2
\* endpoint identifiers the remote service hands out
MaxEndpointId == 6
\* connection_<key> overrides passed in one call
MaxOverrides == 2

(***************************************************************************)
(* Python values.                                                          *)
(***************************************************************************)
None == "None"
NoId == 0
True == "True"
False == "False"

\* Python truthiness of a string-valued parameter (if name: ...)
Truthy(v) == v \notin {None, "", False}
\* Python truthiness of an identifier (if not role_id: ...)
TruthyId(i) == i # NoId

(***************************************************************************)
(* Input domains.                                                          *)
(***************************************************************************)
Names == {"n1", "n2"}
NameArgs == Names \cup {None}
Ids == 1..MaxId
\* an identifier argument: absent, one the remote may have issued, or one
\* it never issued
IdArgs == 0..(MaxId + 1)
Profiles == {None, "p"}
Keys == {"user", "password", "project", "project_id", "auth_url",
         "insecure", "token", "endpoint"}

(***************************************************************************)
(* auth (lines 85-129) and the configuration store behind                  *)
(* __salt__['config.get'].                                                 *)
(***************************************************************************)
ProfilePrefix(profile) == profile \o ":keystone."
GlobalPrefix == "keystone."

\* the settings the configuration store may hold: one with a default, one
\* without, one whose default is falsy, each global or scoped by profile "p"
SettingKeys == {"user", "token", "insecure"}
SettingNames == {GlobalPrefix \o k : k \in SettingKeys}
                  \cup {ProfilePrefix("p") \o k : k \in SettingKeys}
\* the value a setting holds when it is present: a profile-scoped setting
\* holds "b", a global one "c"; an override holds "a"
SettingValue(s) ==
  IF s \in {GlobalPrefix \o k : k \in SettingKeys} THEN "c" ELSE "b"
OverrideValue == "a"

Configs == {[s \in S |-> SettingValue(s)] : S \in SUBSET SettingNames}

\* **connection_args: the connection_<key> entries of a call
ConnectionArgs == {[k \in S |-> OverrideValue] :
                     S \in {T \in SUBSET Keys : Cardinality(T) <= MaxOverrides}}
NoConnectionArgs == [k \in {} |-> OverrideValue]

\* __salt__['config.get'](key, default)
config_get(cfg, key, default) == IF key \in DOMAIN cfg THEN cfg[key] ELSE default

\* the prefix auth computes (lines 96-99)
auth_prefix_global_only(profile) == GlobalPrefix

auth_prefix(profile) ==
  IF Truthy(profile) THEN ProfilePrefix(profile) ELSE GlobalPrefix

\* the inner get(key, default) of auth (lines 102-104)
auth_get(cfg, profile, connection_args, key, default) ==
  IF key \in DOMAIN connection_args
    THEN connection_args[key]
    ELSE config_get(cfg, auth_prefix(profile) \o key, default)

\* the hard-coded defaults (lines 106-113)
Default(key) ==
  CASE key = "user" -> "admin"
    [] key = "password" -> "ADMIN"
    [] key = "project" -> "admin"
    [] key = "project_id" -> None
    [] key = "auth_url" -> "http://127.0.0.1:35357/v2.0/"
    [] key = "insecure" -> False
    [] key = "token" -> None
    [] key = "endpoint" -> "http://127.0.0.1:35357/v2.0"

\* the local variables user, password, ... of auth (lines 106-113)
auth_resolved(cfg, profile, connection_args) ==
  [k \in Keys |-> auth_get(cfg, profile, connection_args, k, Default(k))]

\* the keyword arguments handed to client.Client (lines 115-129)
auth(cfg, profile, connection_args) ==
  LET r == auth_resolved(cfg, profile, connection_args)
      creds == [username |-> r["user"], password |-> r["password"],
                project_name |-> r["project"], project_id |-> r["project_id"],
                auth_url |-> r["auth_url"]]
  IN  IF Truthy(r["token"])
        THEN [path |-> "token", token |-> r["token"], endpoint |-> r["endpoint"]]
        ELSE IF Truthy(r["insecure"])
               THEN [path |-> "credentials", kwargs |-> creds, insecure |-> True]
               ELSE [path |-> "credentials", kwargs |-> creds]

\* one authentication, as recorded in an operation's trace
AuthRec(profile, connection_args) ==
  [profile |-> profile, connection_args |-> connection_args]


(***************************************************************************)
(* Values an operation hands back to its caller.                           *)
(***************************************************************************)
\* {'Error': msg}
Error(msg) == [kind |-> "error", msg |-> msg]
\* {name: {...fields...}}: the mapping of a single-item get
Map(key, val) == [kind |-> "map", key |-> key, val |-> val]
\* a flat mapping of fields (endpoint_get, ec2_credentials_create)
Flat(val) == [kind |-> "record", val |-> val]
\* a formatted confirmation string
Str(fmt, id, name) == [kind |-> "str", fmt |-> fmt, id |-> id, name |-> name]
\* falling off the end of the function
ReturnsNone == [kind |-> "none"]
ReturnsTrue == [kind |-> "bool", b |-> TRUE]
\* an exception that propagates to the caller
Raise(exc) == [kind |-> "raise", exc |-> exc]

IsError(r) == r.kind = "error"
Raised(r) == r.kind = "raise"
\* a Python dict
IsMapping(r) == r.kind \in {"error", "map", "record", "listing"}
IsString(r) == r.kind = "str"
\* a NotFound is the remote service's error; KeyError and TypeError are
\* raised by the module's own subscripting
RemoteError(r) == r.kind = "raise" /\ r.exc = "NotFound"

\* 'Error' in ret
HasErrorKey(r) == r.kind = "error" \/ (r.kind = "map" /\ r.key = "Error")

\* ret[key] on the mapping a get returned: KeyError unless key is its key
HasKey(r, key) == r.kind = "map" /\ r.key = key

\* what an operation did: the remote state it left, the value it returned,
\* the client calls it delegated, the authentications it performed
Res(R, ret, calls, auths) ==
  [remote |-> R, ret |-> ret, calls |-> calls, auths |-> auths]

(***************************************************************************)
(* The remote identity service behind the keystoneclient handle.  Every    *)
(* collection is kept in listing order; identifiers are issued from a      *)
(* counter per collection and never reused.                                *)
(***************************************************************************)
\* a client call, as recorded in an operation's trace
ListCall(m, domain) == [m |-> m, domain |-> domain]
Call(m, id) == [m |-> m, id |-> id]

Has(list, id) == \E i \in 1..Len(list) : list[i].id = id
Entity(list, id) == list[CHOOSE i \in 1..Len(list) : list[i].id = id]
Remove(list, id) == SelectSeq(list, LAMBDA e : e.id # id)
Replace(list, id, new) ==
  [i \in 1..Len(list) |-> IF list[i].id = id THEN new ELSE list[i]]

\* kstone.<kind>.list(domain=domain): every entity when domain is None
Listing(list, domain) ==
  IF domain = None THEN list ELSE SelectSeq(list, LAMBDA e : e.domain = domain)

HasName(list, name) == \E i \in 1..Len(list) : list[i].name = name

\* the scan  for x in listing: if x.name == name: id = x.id; break
\* the identifier is left as it was when nothing matches
ScanLast(list, name, id) ==
  IF HasName(list, name)
    THEN list[CHOOSE i \in 1..Len(list) :
                /\ list[i].name = name
                /\ \A j \in (i+1)..Len(list) : list[j].name # name].id
    ELSE id

\* the scan with the assignment moved before the test: the identifier of
\* the last entity listed is left when nothing matches
ScanAssignBeforeTest(list, name, id) ==
  IF HasName(list, name)
    THEN list[CHOOSE i \in 1..Len(list) :
                /\ list[i].name = name
                /\ \A j \in 1..(i-1) : list[j].name # name].id
    ELSE IF list = <<>> THEN id ELSE list[Len(list)].id

Scan(list, name, id) ==
  IF HasName(list, name)
    THEN list[CHOOSE i \in 1..Len(list) :
                /\ list[i].name = name
                /\ \A j \in 1..(i-1) : list[j].name # name].id
    ELSE id

\* a field of a PATCH body: the client drops the keyword arguments that are
\* None, so the remote keeps the current value for them
Patched(current, given) == IF given = None THEN current ELSE given

(***************************************************************************)
(* Roles (lines 346-436).                                                  *)
(***************************************************************************)
RoleFields(role) == [id |-> role.id, name |-> role.name]

\* the resolution of role_get as "the identifier when one is given, else
\* the name scan"
role_get_resolve_id_first(R, role_id, name) ==
  IF TruthyId(role_id) THEN role_id
  ELSE IF Truthy(name) THEN Scan(R.roles, name, role_id) ELSE role_id

\* lines 408-412: the name scan of role_get
role_get_resolve(R, role_id, name) ==
  IF Truthy(name) THEN Scan(R.roles, name, role_id) ELSE role_id

role_get(R, role_id, name, profile, connection_args) ==
  LET auths == <<AuthRec(profile, connection_args)>>
      listed == IF Truthy(name) THEN <<ListCall("roles.list", None)>> ELSE <<>>
      id == role_get_resolve(R, role_id, name)
      calls == listed \o <<Call("roles.get", id)>>
  IN  IF ~TruthyId(id)
        THEN Res(R, Error("Unable to resolve role id"), listed, auths)
      ELSE IF ~Has(R.roles, id)
        THEN Res(R, Raise("NotFound"), calls, auths)
      ELSE LET role == Entity(R.roles, id)
           IN  Res(R, Map(role.name, RoleFields(role)), calls, auths)

\* lines 379-383: the name scan of role_delete
role_delete_resolve(R, role_id, name) ==
  IF Truthy(name) THEN Scan(R.roles, name, role_id) ELSE role_id

\* kstone.roles.delete(role) is handed the mapping role_get returned, not
\* an identifier: the client finds neither .uuid nor .id on it and asks the
\* service to delete the role whose identifier is the mapping's text, which
\* the service answers with NotFound.
role_delete(R, role_id, name, profile, connection_args) ==
  LET auths == <<AuthRec(profile, connection_args)>>
      listed == IF Truthy(name) THEN <<ListCall("roles.list", None)>> ELSE <<>>
      id == role_delete_resolve(R, role_id, name)
  IN  IF ~TruthyId(id)
        THEN Res(R, Error("Unable to resolve role id"), listed, auths)
      ELSE LET g == role_get(R, id, None, profile, connection_args)
               calls == listed \o g.calls
               as == auths \o g.auths
           IN  IF Raised(g.ret)
                 THEN Res(R, g.ret, calls, as)
                 ELSE Res(R, Raise("NotFound"),
                          calls \o <<[m |-> "roles.delete", mapping |-> g.ret]>>,
                          as)

\* kstone.roles.create(name): the next identifier, appended to the listing
roles_create(R, name) ==
  [R EXCEPT !.roles = Append(@, [id |-> R.next.roles, name |-> name]),
            !.next.roles = @ + 1]

role_create(R, name, profile, connection_args) ==
  LET auths == <<AuthRec(profile, connection_args)>>
      g == role_get(R, NoId, name, profile, connection_args)
  IN  IF Raised(g.ret)
        THEN Res(R, g.ret, g.calls, auths \o g.auths)
      ELSE IF ~HasErrorKey(g.ret)
        THEN Res(R, Error("Role \"" \o name \o "\" already exists"),
                 g.calls, auths \o g.auths)
      ELSE LET R2 == roles_create(R, name)
               g2 == role_get(R2, NoId, name, profile, connection_args)
           IN  Res(R2, g2.ret,
                   g.calls \o <<[m |-> "roles.create", name |-> name]>> \o g2.calls,
                   auths \o g.auths \o g2.auths)

(***************************************************************************)
(* Services (lines 439-521).                                               *)
(***************************************************************************)
ServiceFields(service) ==
  [id |-> service.id, name |-> service.name, type |-> service.type,
   description |-> service.description]

\* lines 489-493: the name scan of service_get
service_get_resolve(R, service_id, name) ==
  IF Truthy(name) THEN Scan(R.services, name, service_id) ELSE service_id

service_get(R, service_id, name, profile, connection_args) ==
  LET auths == <<AuthRec(profile, connection_args)>>
      listed == IF Truthy(name) THEN <<ListCall("services.list", None)>> ELSE <<>>
      id == service_get_resolve(R, service_id, name)
      calls == listed \o <<Call("services.get", id)>>
  IN  IF ~TruthyId(id)
        THEN Res(R, Error("Unable to resolve service id"), listed, auths)
      ELSE IF ~Has(R.services, id)
        THEN Res(R, Raise("NotFound"), calls, auths)
      ELSE LET service == Entity(R.services, id)
           IN  Res(R, Map(service.name, ServiceFields(service)), calls, auths)

\* kstone.services.create(name, service_type, description)
services_create(R, name, service_type, description) ==
  [R EXCEPT !.services = Append(@, [id |-> R.next.services, name |-> name,
                                    type |-> service_type,
                                    description |-> description]),
            !.next.services = @ + 1]

\* the identifier service_create reads back (line 453)
service_create_get_id(R) == R.next.services

service_create(R, name, service_type, description, profile, connection_args) ==
  LET auths == <<AuthRec(profile, connection_args)>>
      R2 == services_create(R, name, service_type, description)
      g == service_get(R2, service_create_get_id(R), None, profile, connection_args)
  IN  Res(R2, g.ret,
          <<[m |-> "services.create", name |-> name]>> \o g.calls,
          auths \o g.auths)

\* kstone.services.delete(service_id): NotFound when no service has it
\* (None included)
service_delete(R, service_id, name, profile, connection_args) ==
  LET auths == <<AuthRec(profile, connection_args)>>
      g == service_get(R, NoId, name, profile, connection_args)
      named == Truthy(name)
      as == IF named THEN auths \o g.auths ELSE auths
      pre == IF named THEN g.calls ELSE <<>>
  IN  IF named /\ Raised(g.ret)
        THEN Res(R, g.ret, pre, as)
      ELSE IF named /\ ~HasKey(g.ret, name)
        THEN Res(R, Raise("KeyError"), pre, as)
      ELSE LET id == IF named THEN g.ret.val.id ELSE service_id
               calls == pre \o <<Call("services.delete", id)>>
           IN  IF ~Has(R.services, id)
                 THEN Res(R, Raise("NotFound"), calls, as)
                 ELSE Res([R EXCEPT !.services = Remove(@, id)],
                          Str("Keystone service ID \"{0}\" deleted", id, None),
                          calls, as)

\* service_list: a mapping keyed by name, so of several services that carry
\* one name the last one listed is the entry kept (lines 515-521)
service_list_entry(R, name) ==
  Entity(R.services, ScanLast(R.services, name, NoId))

service_list(R, profile, connection_args) ==
  Res(R,
      [kind |-> "listing",
       val |-> [n \in {R.services[i].name : i \in 1..Len(R.services)} |->
                  ServiceFields(service_list_entry(R, n))]],
      <<ListCall("services.list", None)>>,
      <<AuthRec(profile, connection_args)>>)

(***************************************************************************)
(* Endpoints (lines 256-343).                                              *)
(***************************************************************************)
Interfaces == {"public", "admin", "internal"}

EndpointFields(endpoint) ==
  [id |-> endpoint.id, region |-> endpoint.region,
   interface |-> endpoint.interface, url |-> endpoint.url,
   service_id |-> endpoint.service_id]

EndpointIds(R) == {R.endpoints[i].id : i \in 1..Len(R.endpoints)}

endpoint_list(R, profile, connection_args) ==
  Res(R,
      [kind |-> "listing",
       val |-> [i \in EndpointIds(R) |-> EndpointFields(Entity(R.endpoints, i))]],
      <<ListCall("endpoints.list", None)>>,
      <<AuthRec(profile, connection_args)>>)

\* the endpoints whose service_id is that of the entry service_list holds
\* under the name
EndpointsOf(R, service) ==
  IF HasName(R.services, service)
    THEN {i \in EndpointIds(R) :
            Entity(R.endpoints, i).service_id = service_list_entry(R, service).id}
    ELSE {}

\* endpoint_get walks the mapping endpoint_list built and returns the first
\* endpoint of the service it meets; the order of that walk is the order of
\* a Python 2 dict keyed by identifier, so any endpoint of the service may
\* come first: pick is the one that does (NoId when there is none)
EndpointPicks(R, service) ==
  IF EndpointsOf(R, service) = {} THEN {NoId} ELSE EndpointsOf(R, service)

endpoint_get(R, service, profile, connection_args, pick) ==
  LET sl == service_list(R, profile, connection_args)
      el == endpoint_list(R, profile, connection_args)
      auths == <<AuthRec(profile, connection_args)>> \o sl.auths
  IN  IF service \notin DOMAIN sl.ret.val
        THEN Res(R, Error("Could not find the specified service"),
                 sl.calls, auths)
      ELSE IF pick \in EndpointsOf(R, service)
        THEN Res(R, Flat(el.ret.val[pick]), sl.calls \o el.calls,
                 auths \o el.auths)
        ELSE Res(R, Error("Could not find endpoint for the specified service"),
                 sl.calls \o el.calls, auths \o el.auths)

\* kstone.endpoints.create(service_id, url, interface=..., region=...)
endpoints_create(R, service_id, url, interface, region) ==
  [R EXCEPT !.endpoints = Append(@, [id |-> R.next.endpoints, region |-> region,
                                     interface |-> interface, url |-> url,
                                     service_id |-> service_id]),
            !.next.endpoints = @ + 1]

\* the orders in which the three-entry dict of line 317 may be walked
InterfaceOrders ==
  {o \in [1..3 -> Interfaces] : \A i, j \in 1..3 : i # j => o[i] # o[j]}

\* line 318 with the identifier lost
endpoint_create_service_id_dropped(keystone_service, service) == NoId

\* keystone_service[service]['id'] (line 318): the identifier in the mapping
\* service_get returned at line 312
endpoint_create_service_id(keystone_service, service) == keystone_service.val.id

\* order is the walk of the dict of line 317, pick0 and pick the endpoints
\* the two calls of endpoint_get (lines 316 and 319) meet first
endpoint_create(R, service, publicurl, internalurl, adminurl, region, profile, connection_args, order, pick0, pick) ==
  LET auths == <<AuthRec(profile, connection_args)>>
      ks == service_get(R, NoId, service, profile, connection_args)
      ep == endpoint_get(R, service, profile, connection_args, pick0)
      url == [public |-> publicurl, admin |-> adminurl, internal |-> internalurl]
      sid == endpoint_create_service_id(ks.ret, service)
      R1 == endpoints_create(R, sid, url[order[1]], order[1], region)
      R2 == endpoints_create(R1, sid, url[order[2]], order[2], region)
      R3 == endpoints_create(R2, sid, url[order[3]], order[3], region)
      created == [i \in 1..3 |->
                    [m |-> "endpoints.create", service_id |-> sid,
                     interface |-> order[i]]]
      g == endpoint_get(R3, service, profile, connection_args, pick)
  IN  IF Raised(ks.ret)
        THEN Res(R, ks.ret, ks.calls, auths \o ks.auths)
      ELSE IF HasErrorKey(ks.ret)
        THEN Res(R, Error("Could not find the specified service"),
                 ks.calls, auths \o ks.auths)
      ELSE Res(R3, g.ret,
               ks.calls \o ep.calls \o created \o g.calls,
               auths \o ks.auths \o ep.auths \o g.auths)

RECURSIVE endpoints_delete_all(_, _)
\* lines 338-340: delete every endpoint of ids from the listing
endpoints_delete_all(list, ids) ==
  IF ids = {} THEN list
  ELSE LET i == CHOOSE x \in ids : TRUE
       IN  endpoints_delete_all(Remove(list, i), ids \ {i})

\* the endpoints the loop of endpoint_delete deletes, had it stopped at the
\* first one
endpoint_delete_targets_first_only(R, service_id) ==
  LET all == {i \in EndpointIds(R) : Entity(R.endpoints, i).service_id = service_id}
  IN  IF all = {} THEN {} ELSE {CHOOSE i \in all : \A j \in all : i <= j}

\* lines 338-339: the endpoints whose service_id is the service's
endpoint_delete_targets(R, service_id) ==
  {i \in EndpointIds(R) : Entity(R.endpoints, i).service_id = service_id}

RECURSIVE SetToSeq(_)
\* the identifiers of a set in increasing order
SetToSeq(S) ==
  IF S = {} THEN <<>>
  ELSE LET i == CHOOSE x \in S : \A y \in S : x <= y
       IN  <<i>> \o SetToSeq(S \ {i})

endpoint_delete(R, service, profile, connection_args) ==
  LET sl == service_list(R, profile, connection_args)
      el == endpoint_list(R, profile, connection_args)
      auths == <<AuthRec(profile, connection_args)>> \o sl.auths
  IN  IF service \notin DOMAIN sl.ret.val
        THEN Res(R, Error("Could not find the specified service"),
                 sl.calls, auths)
      ELSE LET service_id == sl.ret.val[service].id
               ids == endpoint_delete_targets(R, service_id)
               R2 == [R EXCEPT !.endpoints = endpoints_delete_all(@, ids)]
               deleted == [i \in 1..Cardinality(ids) |->
                             Call("endpoints.delete", SetToSeq(ids)[i])]
               g == endpoint_get(R2, service, profile, connection_args,
                                 CHOOSE p \in EndpointPicks(R2, service) : TRUE)
           IN  Res(R2,
                   IF HasErrorKey(g.ret) THEN ReturnsTrue ELSE ReturnsNone,
                   sl.calls \o el.calls \o deleted \o g.calls,
                   auths \o el.auths \o g.auths)

(***************************************************************************)
(* Projects (lines 524-652).                                               *)
(***************************************************************************)
ProjectFields(project) ==
  [id |-> project.id, name |-> project.name,
   description |-> project.description, enabled |-> project.enabled]

\* lines 585-589: the name scan of project_get, over the domain's listing
project_get_resolve(R, project_id, name, domain) ==
  IF Truthy(name) THEN Scan(Listing(R.projects, domain), name, project_id)
                  ELSE project_id

project_get(R, project_id, name, profile, domain, connection_args) ==
  LET auths == <<AuthRec(profile, connection_args)>>
      listed == IF Truthy(name) THEN <<ListCall("projects.list", domain)>> ELSE <<>>
      id == project_get_resolve(R, project_id, name, domain)
      calls == listed \o <<Call("projects.get", id)>>
  IN  IF ~TruthyId(id)
        THEN Res(R, Error("Unable to resolve project id"), listed, auths)
      ELSE IF ~Has(R.projects, id)
        THEN Res(R, Raise("NotFound"), calls, auths)
      ELSE LET project == Entity(R.projects, id)
           IN  Res(R, Map(project.name, ProjectFields(project)), calls, auths)

\* kstone.projects.create(name, description=..., domain=..., enabled=...)
projects_create(R, name, description, domain, enabled) ==
  [R EXCEPT !.projects = Append(@, [id |-> R.next.projects, name |-> name,
                                    description |-> description,
                                    enabled |-> enabled, domain |-> domain]),
            !.next.projects = @ + 1]

\* the read-back made with the identifier before the one just issued
project_create_get_id_stale(R) == R.next.projects - 1

\* new.id, the identifier project_create reads back (line 539)
project_create_get_id(R) == R.next.projects

project_create(R, name, description, enabled, domain, profile, connection_args) ==
  LET auths == <<AuthRec(profile, connection_args)>>
      R2 == projects_create(R, name, description, domain, enabled)
      g == project_get(R2, project_create_get_id(R), None, profile, None,
                       connection_args)
  IN  Res(R2, g.ret,
          <<[m |-> "projects.create", name |-> name]>> \o g.calls,
          auths \o g.auths)

\* the name scan of project_delete keeping the last match, not the first
project_delete_resolve_last(R, project_id, name) ==
  IF Truthy(name) THEN ScanLast(R.projects, name, project_id) ELSE project_id

\* lines 555-559: the name scan of project_delete, over the whole listing
project_delete_resolve(R, project_id, name) ==
  IF Truthy(name) THEN Scan(R.projects, name, project_id) ELSE project_id

project_delete(R, project_id, name, profile, connection_args) ==
  LET auths == <<AuthRec(profile, connection_args)>>
      listed == IF Truthy(name) THEN <<ListCall("projects.list", None)>> ELSE <<>>
      id == project_delete_resolve(R, project_id, name)
      calls == listed \o <<Call("projects.delete", id)>>
  IN  IF ~TruthyId(id)
        THEN Res(R, Error("Unable to resolve project id"), listed, auths)
      ELSE IF ~Has(R.projects, id)
        THEN Res(R, Raise("NotFound"), calls, auths)
      ELSE Res([R EXCEPT !.projects = Remove(@, id)],
               Str("Tenant ID {0} deleted", id, name), calls, auths)

\* lines 649-650: keep the current enabled when none is given
project_update_enabled(current, enabled) ==
  IF enabled = None THEN current ELSE enabled

project_update(R, project_id, name, description, domain, enabled, profile, connection_args) ==
  LET auths == <<AuthRec(profile, connection_args)>>
      scanned == ~TruthyId(project_id)
      listed == IF scanned THEN <<ListCall("projects.list", None)>> ELSE <<>>
      id == IF scanned THEN Scan(R.projects, name, project_id) ELSE project_id
      calls == listed \o <<Call("projects.get", id)>>
  IN  IF ~TruthyId(id)
        THEN Res(R, Error("Unable to resolve project id"), listed, auths)
      ELSE IF ~Has(R.projects, id)
        THEN Res(R, Raise("NotFound"), calls, auths)
      ELSE LET project == Entity(R.projects, id)
               name2 == IF ~Truthy(name) THEN project.name ELSE name
               description2 == IF ~Truthy(description) THEN project.description
                                                       ELSE description
               enabled2 == project_update_enabled(project.enabled, enabled)
               new == [project EXCEPT
                         !.name = Patched(@, name2),
                         !.domain = Patched(@, domain),
                         !.description = Patched(@, description2),
                         !.enabled = Patched(@, enabled2)]
           IN  Res([R EXCEPT !.projects = Replace(@, id, new)],
                   ReturnsNone,
                   calls \o <<Call("projects.update", id)>>, auths)

(***************************************************************************)
(* Users (lines 673-821).  The users this module creates carry no legacy   *)
(* projectId attribute, so the project_id entry of lines 731-733 is never  *)
(* added to a mapping.                                                     *)
(***************************************************************************)
UserFields(user) ==
  [id |-> user.id, name |-> user.name, email |-> user.email,
   enabled |-> user.enabled]

\* lines 713-717: the name scan of user_get, over the domain's listing
user_get_resolve(R, user_id, name, domain) ==
  IF Truthy(name) THEN Scan(Listing(R.users, domain), name, user_id)
                  ELSE user_id

\* lines 722-725, had the remote error been left to propagate
user_get_not_found_raised(user_id) == Raise("NotFound")

\* lines 722-725: except keystoneclient.exceptions.NotFound
user_get_not_found(user_id) ==
  Error("Could not find user '" \o ToString(user_id) \o "'")

user_get(R, user_id, name, domain, profile, connection_args) ==
  LET auths == <<AuthRec(profile, connection_args)>>
      listed == IF Truthy(name) THEN <<ListCall("users.list", domain)>> ELSE <<>>
      id == user_get_resolve(R, user_id, name, domain)
      calls == listed \o <<Call("users.get", id)>>
  IN  IF ~TruthyId(id)
        THEN Res(R, Error("Unable to resolve user id"), listed, auths)
      ELSE IF ~Has(R.users, id)
        THEN Res(R, user_get_not_found(id), calls, auths)
      ELSE LET user == Entity(R.users, id)
           IN  Res(R, Map(user.name, UserFields(user)), calls, auths)

\* kstone.users.create(name=..., password=..., email=..., domain=None,
\*                     project_id=..., enabled=...)
users_create(R, name, password, email, project_id, enabled) ==
  [R EXCEPT !.users = Append(@, [id |-> R.next.users, name |-> name,
                                 email |-> email, enabled |-> enabled,
                                 password |-> password, domain |-> None,
                                 default_project |-> NoId,
                                 project_id |-> project_id]),
            !.next.users = @ + 1]

\* item.id, the identifier user_create reads back (line 755)
user_create_get_id(R) == R.next.users

user_create(R, name, password, email, project_id, domain, enabled, profile, connection_args) ==
  LET auths == <<AuthRec(profile, connection_args)>>
      R2 == users_create(R, name, password, email, project_id, enabled)
      g == user_get(R2, user_create_get_id(R), None, None, profile,
                    connection_args)
  IN  Res(R2, g.ret,
          <<[m |-> "users.create", name |-> name]>> \o g.calls,
          auths \o g.auths)

\* lines 771-775: the name scan of user_delete, over the whole listing
user_delete_resolve(R, user_id, name) ==
  IF Truthy(name) THEN Scan(R.users, name, user_id) ELSE user_id

user_delete(R, user_id, name, profile, connection_args) ==
  LET auths == <<AuthRec(profile, connection_args)>>
      listed == IF Truthy(name) THEN <<ListCall("users.list", None)>> ELSE <<>>
      id == user_delete_resolve(R, user_id, name)
      calls == listed \o <<Call("users.delete", id)>>
  IN  IF ~TruthyId(id)
        THEN Res(R, Error("Unable to resolve user id"), listed, auths)
      ELSE IF ~Has(R.users, id)
        THEN Res(R, Raise("NotFound"), calls, auths)
      ELSE Res([R EXCEPT !.users = Remove(@, id)],
               Str("User ID {0} deleted", id, name), calls, auths)

\* lines 813-814 with the user's name taken for the email not given
user_update_email_from_name(current, email) ==
  IF ~Truthy(email) THEN "n1" ELSE email

\* lines 813-814: keep the current email when none is given
user_update_email(current, email) ==
  IF ~Truthy(email) THEN current ELSE email

user_update(R, user_id, name, email, password, enabled, domain, project, profile, connection_args) ==
  LET auths == <<AuthRec(profile, connection_args)>>
      scanned == ~TruthyId(user_id)
      listed == IF scanned THEN <<ListCall("users.list", domain)>> ELSE <<>>
      id == IF scanned THEN Scan(Listing(R.users, domain), name, user_id)
                       ELSE user_id
      calls == listed \o <<Call("users.get", id)>>
  IN  IF ~TruthyId(id)
        THEN Res(R, Error("Unable to resolve user id"), listed, auths)
      ELSE IF ~Has(R.users, id)
        THEN Res(R, Raise("NotFound"), calls, auths)
      ELSE LET user == Entity(R.users, id)
               name2 == IF ~Truthy(name) THEN user.name ELSE name
               email2 == user_update_email(user.email, email)
               enabled2 == IF enabled = None THEN user.enabled ELSE enabled
               new == [user EXCEPT
                         !.name = Patched(@, name2),
                         !.email = Patched(@, email2),
                         !.password = Patched(@, password),
                         !.domain = Patched(@, domain),
                         !.default_project =
                            IF project = NoId THEN @ ELSE project,
                         !.enabled = Patched(@, enabled2)]
           IN  Res([R EXCEPT !.users = Replace(@, id, new)],
                   Str("Info updated for user ID {0}", id, None),
                   calls \o <<Call("users.update", id)>>, auths)

(***************************************************************************)
(* Role assignments (lines 824-918).                                       *)
(***************************************************************************)
\* next(six.iterkeys(mapping))['name']: the first key of the mapping is a
\* string, and a string subscripted by 'name' raises TypeError
NameOfFirstKey(ret) == Raise("TypeError")

\* what one of the three lookups leaves behind: the identifier, the
\* 'Unable to resolve' mapping when the identifier is empty, or the exception
\* raised on the way.  g is the result of the get, name the name given
\* (lines 841-848, 850-857, 859-866)
resolved(g, name, msg) ==
  LET out == IF Raised(g.ret) THEN g.ret
             ELSE IF Truthy(name)
               THEN IF HasKey(g.ret, name)
                      THEN [kind |-> "id", id |-> g.ret.val.id]
                      ELSE Raise("KeyError")
             ELSE NameOfFirstKey(g.ret)
  IN  [out |-> IF out.kind = "id" /\ ~TruthyId(out.id) THEN Error(msg) ELSE out,
       calls |-> g.calls, auths |-> g.auths]

\* user=..., user_id=... of user_role_add / user_role_remove (lines 841-848)
resolve_user(R, user_id, user, profile, connection_args) ==
  resolved(IF Truthy(user)
             THEN user_get(R, NoId, user, None, profile, connection_args)
             ELSE user_get(R, user_id, None, None, profile, connection_args),
           user, "Unable to resolve user id")

\* project=..., project_id=... (lines 850-857)
resolve_project(R, project_id, project, profile, connection_args) ==
  resolved(IF Truthy(project)
             THEN project_get(R, NoId, project, profile, None, connection_args)
             ELSE project_get(R, project_id, None, profile, None, connection_args),
           project, "Unable to resolve project id")

\* role=..., role_id=... (lines 859-866 and 908-914); lookup_profile and
\* lookup_args are what the reverse lookup by identifier is called with:
\* user_role_remove calls role_get(role_id) with neither (line 912)
resolve_role(R, role_id, role, profile, connection_args, lookup_profile, lookup_args) ==
  resolved(IF Truthy(role)
             THEN role_get(R, NoId, role, profile, connection_args)
             ELSE role_get(R, role_id, None, lookup_profile, lookup_args),
           role, "Unable to resolve role id")

\* the three lookups in order, stopping at the first that does not yield
\* an identifier
resolve_chain(a0, u, p, r) ==
  IF u.out.kind # "id"
    THEN [out |-> u.out, calls |-> u.calls, auths |-> a0 \o u.auths]
  ELSE IF p.out.kind # "id"
    THEN [out |-> p.out, calls |-> u.calls \o p.calls,
          auths |-> a0 \o u.auths \o p.auths]
  ELSE IF r.out.kind # "id"
    THEN [out |-> r.out, calls |-> u.calls \o p.calls \o r.calls,
          auths |-> a0 \o u.auths \o p.auths \o r.auths]
  ELSE [out |-> [kind |-> "ids", user_id |-> u.out.id,
                 project_id |-> p.out.id, role_id |-> r.out.id],
        calls |-> u.calls \o p.calls \o r.calls,
        auths |-> a0 \o u.auths \o p.auths \o r.auths]

resolve_three(R, user_id, user, project_id, project, role_id, role, profile, connection_args, lookup_profile, lookup_args) ==
  resolve_chain(<<AuthRec(profile, connection_args)>>,
                resolve_user(R, user_id, user, profile, connection_args),
                resolve_project(R, project_id, project, profile, connection_args),
                resolve_role(R, role_id, role, profile, connection_args,
                             lookup_profile, lookup_args))

GrantCall(m, role_id, user_id, project_id) ==
  [m |-> m, role_id |-> role_id, user_id |-> user_id, project_id |-> project_id]

\* kstone.roles.grant(role_id, user=user_id, project=project_id) and the
\* confirmation (lines 868-870), t being the outcome of the three lookups
roles_grant(R, t, user, project, role) ==
  IF t.out.kind # "ids"
    THEN Res(R, t.out, t.calls, t.auths)
    ELSE Res([R EXCEPT !.grants = @ \cup
                {<<t.out.role_id, t.out.user_id, t.out.project_id>>}],
             [kind |-> "str",
              fmt |-> "\"{0}\" role added for user \"{1}\" for \"{2}\" project",
              role |-> role, user |-> user, project |-> project],
             t.calls \o <<GrantCall("roles.grant", t.out.role_id,
                                    t.out.user_id, t.out.project_id)>>,
             t.auths)

user_role_add(R, user_id, user, project_id, project, role_id, role, profile, connection_args) ==
  roles_grant(R, resolve_three(R, user_id, user, project_id, project,
                               role_id, role, profile, connection_args,
                               profile, connection_args),
              user, project, role)

\* kstone.roles.revoke(role=role_id, user=user_id, project=project_id) and
\* the confirmation (lines 916-918): NotFound when the assignment does not
\* exist
roles_revoke(R, t, user, project, role) ==
  IF t.out.kind # "ids"
    THEN Res(R, t.out, t.calls, t.auths)
  ELSE LET calls == t.calls \o <<GrantCall("roles.revoke", t.out.role_id,
                                           t.out.user_id, t.out.project_id)>>
       IN  IF <<t.out.role_id, t.out.user_id, t.out.project_id>> \notin R.grants
             THEN Res(R, Raise("NotFound"), calls, t.auths)
             ELSE Res([R EXCEPT !.grants = @ \
                         {<<t.out.role_id, t.out.user_id, t.out.project_id>>}],
                      [kind |-> "str",
                       fmt |-> "\"{0}\" role removed for user \"{1}\" under \"{2}\" project",
                       role |-> role, user |-> user, project |-> project],
                      calls, t.auths)

user_role_remove(R, user_id, user, project_id, project, role_id, role, profile, connection_args) ==
  roles_revoke(R, resolve_three(R, user_id, user, project_id, project,
                                role_id, role, profile, connection_args,
                                None, NoConnectionArgs),
               user, project, role)

(***************************************************************************)
(* EC2 credentials (lines 132-190).                                        *)
(***************************************************************************)
\* user_get(name=name, ...)[name]['id'] (lines 149-151, 184-185)
ec2_user(R, user_id, name, profile, connection_args) ==
  IF ~Truthy(name)
    THEN [out |-> [kind |-> "id", id |-> user_id], calls |-> <<>>, auths |-> <<>>]
    ELSE LET g == user_get(R, NoId, name, None, profile, connection_args)
         IN  [out |-> IF Raised(g.ret) THEN g.ret
                      ELSE IF HasKey(g.ret, name)
                        THEN [kind |-> "id", id |-> g.ret.val.id]
                        ELSE Raise("KeyError"),
              calls |-> g.calls, auths |-> g.auths]

\* project_get(name=project, ...)[project]['id'] (lines 155-157)
ec2_project(R, project_id, project, profile, connection_args) ==
  IF ~Truthy(project)
    THEN [out |-> [kind |-> "id", id |-> project_id], calls |-> <<>>,
          auths |-> <<>>]
    ELSE LET g == project_get(R, NoId, project, profile, None, connection_args)
         IN  [out |-> IF Raised(g.ret) THEN g.ret
                      ELSE IF HasKey(g.ret, project)
                        THEN [kind |-> "id", id |-> g.ret.val.id]
                        ELSE Raise("KeyError"),
              calls |-> g.calls, auths |-> g.auths]

Ec2Call(m, user_id, key) == [m |-> m, user_id |-> user_id, key |-> key]

\* kstone.ec2.create(user_id, project_id): NotFound when the service knows
\* no such user or project; the access key is the next identifier
ec2_credentials_create(R, user_id, name, project_id, project, profile, connection_args) ==
  LET a0 == <<AuthRec(profile, connection_args)>>
      u == ec2_user(R, user_id, name, profile, connection_args)
      p == ec2_project(R, project_id, project, profile, connection_args)
  IN  IF u.out.kind # "id"
        THEN Res(R, u.out, u.calls, a0 \o u.auths)
      ELSE IF ~TruthyId(u.out.id)
        THEN Res(R, Error("Could not resolve User ID"), u.calls, a0 \o u.auths)
      ELSE IF p.out.kind # "id"
        THEN Res(R, p.out, u.calls \o p.calls, a0 \o u.auths \o p.auths)
      ELSE IF ~TruthyId(p.out.id)
        THEN Res(R, Error("Could not resolve Tenant ID"), u.calls \o p.calls,
                 a0 \o u.auths \o p.auths)
      ELSE LET calls == u.calls \o p.calls \o
                          <<Ec2Call("ec2.create", u.out.id, p.out.id)>>
               cred == [access |-> R.next.ec2, secret |-> R.next.ec2,
                        project_id |-> p.out.id, user_id |-> u.out.id]
           IN  IF ~Has(R.users, u.out.id) \/ ~Has(R.projects, p.out.id)
                 THEN Res(R, Raise("NotFound"), calls, a0 \o u.auths \o p.auths)
                 ELSE Res([R EXCEPT !.ec2 = Append(@, cred),
                                    !.next.ec2 = @ + 1],
                          Flat(cred), calls, a0 \o u.auths \o p.auths)

\* kstone.ec2.delete(user_id, access_key): NotFound when the user holds no
\* such credential.  The user lookup runs with profile=None (line 185).
ec2_credentials_delete(R, user_id, name, access_key, profile, connection_args) ==
  LET a0 == <<AuthRec(profile, connection_args)>>
      u == ec2_user(R, user_id, name, None, connection_args)
  IN  IF u.out.kind # "id"
        THEN Res(R, u.out, u.calls, a0 \o u.auths)
      ELSE IF ~TruthyId(u.out.id)
        THEN Res(R, Error("Could not resolve User ID"), u.calls, a0 \o u.auths)
      ELSE LET calls == u.calls \o <<Ec2Call("ec2.delete", u.out.id, access_key)>>
               held == \E i \in 1..Len(R.ec2) :
                          R.ec2[i].user_id = u.out.id /\ R.ec2[i].access = access_key
           IN  IF ~held
                 THEN Res(R, Raise("NotFound"), calls, a0 \o u.auths)
                 ELSE Res([R EXCEPT !.ec2 = SelectSeq(@, LAMBDA c :
                             ~(c.user_id = u.out.id /\ c.access = access_key))],
                          [kind |-> "str",
                           fmt |-> "ec2 key \"{0}\" deleted under user id \"{1}\"",
                           key |-> access_key, id |-> u.out.id],
                          calls, a0 \o u.auths)

(***************************************************************************)
(* The state machine: each public operation is one action, run to          *)
(* completion against the remote service.                                  *)
(***************************************************************************)
EmptyRemote ==
  [users |-> <<>>, projects |-> <<>>, roles |-> <<>>, services |-> <<>>,
   endpoints |-> <<>>, ec2 |-> <<>>, grants |-> {},
   next |-> [users |-> 1, projects |-> 1, roles |-> 1, services |-> 1,
             endpoints |-> 1, ec2 |-> 1]]

\* no endpoint_create is under way
Idle == [pc |-> "idle"]

NoCall == [op |-> "none", args |-> [none |-> TRUE], ret |-> ReturnsNone,
           calls |-> <<>>, auths |-> <<>>]

\* the module holds no state of its own; the remote service starts empty
\* and the configuration store holds no setting
Init ==
  /\ config = [s \in {} |-> "c"]
  /\ remote = EmptyRemote
  /\ last = NoCall
  /\ pending = Idle

\* for auth: any configuration store over the settings of SettingNames
InitAuth ==
  /\ config \in Configs
  /\ remote = EmptyRemote
  /\ last = NoCall
  /\ pending = Idle

\* the record of a public operation that ran
Do(op, args, res) ==
  /\ remote' = res.remote
  /\ last' = [op |-> op, args |-> args, ret |-> res.ret,
              calls |-> res.calls, auths |-> res.auths]
  /\ UNCHANGED <<config, pending>>

\* identifiers issued so far to users, projects, roles and services
Issued(R) ==
  (R.next.users - 1) + (R.next.projects - 1) + (R.next.roles - 1)
    + (R.next.services - 1)

\* the remote service has an identifier left for one more entity
CanCreate(next, budget) == next <= MaxId /\ Issued(remote) < budget

Auth(profile, connection_args) ==
  /\ last' = [op |-> "auth",
              args |-> [profile |-> profile, connection_args |-> connection_args],
              ret |-> [kind |-> "client",
                       resolved |-> auth_resolved(config, profile, connection_args),
                       client |-> auth(config, profile, connection_args)],
              calls |-> <<>>,
              auths |-> <<AuthRec(profile, connection_args)>>]
  /\ UNCHANGED <<config, remote, pending>>

RoleCreate(budget, name, profile, ca) ==
  /\ CanCreate(remote.next.roles, budget)
  /\ Do("role_create", [name |-> name],
        role_create(remote, name, profile, ca))

RoleGet(role_id, name, profile, ca) ==
  Do("role_get", [id |-> role_id, name |-> name],
     role_get(remote, role_id, name, profile, ca))

RoleDelete(role_id, name, profile, ca) ==
  Do("role_delete", [id |-> role_id, name |-> name],
     role_delete(remote, role_id, name, profile, ca))

ServiceCreate(budget, name, service_type, description, profile, ca) ==
  /\ CanCreate(remote.next.services, budget)
  /\ Do("service_create", [name |-> name],
        service_create(remote, name, service_type, description, profile, ca))

ServiceGet(service_id, name, profile, ca) ==
  Do("service_get", [id |-> service_id, name |-> name],
     service_get(remote, service_id, name, profile, ca))

ServiceDelete(service_id, name, profile, ca) ==
  Do("service_delete", [id |-> service_id, name |-> name],
     service_delete(remote, service_id, name, profile, ca))

ProjectCreate(budget, name, description, enabled, domain, profile, ca) ==
  /\ CanCreate(remote.next.projects, budget)
  /\ Do("project_create", [name |-> name, domain |-> domain],
        project_create(remote, name, description, enabled, domain, profile, ca))

ProjectGet(project_id, name, domain, profile, ca) ==
  Do("project_get", [id |-> project_id, name |-> name, domain |-> domain],
     project_get(remote, project_id, name, profile, domain, ca))

ProjectDelete(project_id, name, profile, ca) ==
  Do("project_delete", [id |-> project_id, name |-> name],
     project_delete(remote, project_id, name, profile, ca))

ProjectUpdate(project_id, name, description, domain, enabled, profile, ca) ==
  Do("project_update",
     [id |-> project_id, name |-> name, description |-> description,
      domain |-> domain, enabled |-> enabled],
     project_update(remote, project_id, name, description, domain, enabled,
                    profile, ca))

UserCreate(budget, name, password, email, project_id, domain, enabled, profile, ca) ==
  /\ CanCreate(remote.next.users, budget)
  /\ Do("user_create", [name |-> name, domain |-> domain],
        user_create(remote, name, password, email, project_id, domain, enabled,
                    profile, ca))

UserGet(user_id, name, domain, profile, ca) ==
  Do("user_get", [id |-> user_id, name |-> name, domain |-> domain],
     user_get(remote, user_id, name, domain, profile, ca))

UserDelete(user_id, name, profile, ca) ==
  Do("user_delete", [id |-> user_id, name |-> name],
     user_delete(remote, user_id, name, profile, ca))

UserUpdate(user_id, name, email, password, enabled, domain, project, profile, ca) ==
  Do("user_update",
     [id |-> user_id, name |-> name, email |-> email, password |-> password,
      enabled |-> enabled, domain |-> domain, project |-> project],
     user_update(remote, user_id, name, email, password, enabled, domain,
                 project, profile, ca))

EndpointCreate(service, publicurl, internalurl, adminurl, region, profile, ca) ==
  /\ remote.next.endpoints + 2 <= MaxEndpointId
  /\ \E order \in InterfaceOrders :
       \E pick0 \in EndpointPicks(remote, service) :
         LET created == endpoint_create(remote, service, publicurl, internalurl,
                                        adminurl, region, profile, ca, order,
                                        pick0, NoId).remote
         IN  \E pick \in EndpointPicks(created, service) :
               Do("endpoint_create", [service |-> service],
                  endpoint_create(remote, service, publicurl, internalurl,
                                  adminurl, region, profile, ca, order,
                                  pick0, pick))

EndpointDelete(service, profile, ca) ==
  Do("endpoint_delete", [service |-> service],
     endpoint_delete(remote, service, profile, ca))

EndpointGet(service, profile, ca) ==
  \E pick \in EndpointPicks(remote, service) :
    Do("endpoint_get", [service |-> service],
       endpoint_get(remote, service, profile, ca, pick))

UserRoleAdd(user_id, user, project_id, project, role_id, role, profile, ca) ==
  Do("user_role_add",
     [user_id |-> user_id, user |-> user, project_id |-> project_id,
      project |-> project, role_id |-> role_id, role |-> role],
     user_role_add(remote, user_id, user, project_id, project, role_id, role,
                   profile, ca))

UserRoleRemove(user_id, user, project_id, project, role_id, role, profile, ca) ==
  Do("user_role_remove",
     [user_id |-> user_id, user |-> user, project_id |-> project_id,
      project |-> project, role_id |-> role_id, role |-> role],
     user_role_remove(remote, user_id, user, project_id, project, role_id, role,
                      profile, ca))

Ec2CredentialsCreate(user_id, name, project_id, project, profile, ca) ==
  /\ remote.next.ec2 <= MaxId
  /\ Do("ec2_credentials_create",
        [user_id |-> user_id, name |-> name, project_id |-> project_id,
         project |-> project],
        ec2_credentials_create(remote, user_id, name, project_id, project,
                               profile, ca))

Ec2CredentialsDelete(user_id, name, access_key, profile, ca) ==
  Do("ec2_credentials_delete",
     [user_id |-> user_id, name |-> name, access_key |-> access_key],
     ec2_credentials_delete(remote, user_id, name, access_key, profile, ca))

(***************************************************************************)
(* Specifications.  Each one runs the operations of one group of claims    *)
(* against the remote service, with the inputs drawn from small sets.      *)
(***************************************************************************)
\* entities held by the remote service, all kinds together, in the
\* specifications that run every kind of entity side by side
MaxEntities == 2

Domains == {None, "d1"}

\* auth under every profile and every set of overrides
NextAuth == \E profile \in Profiles : \E ca \in ConnectionArgs : Auth(profile, ca)

SpecAuth == InitAuth /\ [][NextAuth]_vars

\* create, get and delete of roles, services, projects and users
NextResolve ==
  \/ \E name \in Names : RoleCreate(MaxEntities, name, None, NoConnectionArgs)
  \/ \E name \in Names :
       ServiceCreate(MaxEntities, name, "compute", None, None, NoConnectionArgs)
  \/ \E name \in Names : \E domain \in Domains :
       ProjectCreate(MaxEntities, name, None, True, domain, None, NoConnectionArgs)
  \/ \E name \in Names :
       UserCreate(MaxEntities, name, "pw1", "e1", NoId, None, True, None,
                  NoConnectionArgs)
  \/ \E id \in IdArgs : \E name \in NameArgs :
       RoleGet(id, name, None, NoConnectionArgs)
  \/ \E id \in IdArgs : \E name \in NameArgs :
       ServiceGet(id, name, None, NoConnectionArgs)
  \/ \E id \in IdArgs : \E name \in NameArgs : \E domain \in Domains :
       ProjectGet(id, name, domain, None, NoConnectionArgs)
  \/ \E id \in IdArgs : \E name \in NameArgs : \E domain \in Domains :
       UserGet(id, name, domain, None, NoConnectionArgs)
  \/ \E id \in IdArgs : \E name \in NameArgs :
       RoleDelete(id, name, None, NoConnectionArgs)
  \/ \E id \in IdArgs : \E name \in NameArgs :
       ServiceDelete(id, name, None, NoConnectionArgs)
  \/ \E id \in IdArgs : \E name \in NameArgs :
       ProjectDelete(id, name, None, NoConnectionArgs)
  \/ \E id \in IdArgs : \E name \in NameArgs :
       UserDelete(id, name, None, NoConnectionArgs)

SpecResolve == Init /\ [][NextResolve]_vars

(***************************************************************************)
(* Claims.                                                                 *)
(***************************************************************************)
Setting(cfg, name, otherwise) == IF name \in DOMAIN cfg THEN cfg[name] ELSE otherwise

\* the four-level precedence: override, profile-scoped setting, global
\* setting, default
FourLevels(cfg, profile, ca, k) ==
  IF k \in DOMAIN ca THEN ca[k]
  ELSE IF Truthy(profile) /\ (profile \o ":keystone." \o k) \in DOMAIN cfg
    THEN cfg[profile \o ":keystone." \o k]
  ELSE Setting(cfg, "keystone." \o k, Default(k))

\* the precedence with the global setting read only when no profile is given
ThreeLevels(cfg, profile, ca, k) ==
  IF k \in DOMAIN ca THEN ca[k]
  ELSE IF Truthy(profile)
    THEN Setting(cfg, profile \o ":keystone." \o k, Default(k))
  ELSE Setting(cfg, "keystone." \o k, Default(k))

\* the user name the client is built with, when it is built from credentials
UsesUser(ret, user) ==
  ret.client.path = "credentials" => ret.client.kwargs.username = user

\* C1 as stated: auth resolves every setting by override, then the
\* profile-scoped setting when a profile is given, then the global setting,
\* then the default, and builds the client with the user so resolved.
C1_FourLevelPrecedence ==
  last.op = "auth" =>
    /\ \A k \in Keys :
         last.ret.resolved[k]
           = FourLevels(config, last.args.profile, last.args.connection_args, k)
    /\ UsesUser(last.ret, FourLevels(config, last.args.profile,
                                     last.args.connection_args, "user"))

\* C1, amended: auth resolves every setting by override first; then, when a
\* profile is given, the profile-scoped setting and then the default (the
\* global setting is not read); when no profile is given, the global
\* setting and then the default.  The client is built with the user so
\* resolved.
C1_Precedence ==
  last.op = "auth" =>
    /\ \A k \in Keys :
         last.ret.resolved[k]
           = ThreeLevels(config, last.args.profile, last.args.connection_args, k)
    /\ UsesUser(last.ret, ThreeLevels(config, last.args.profile,
                                      last.args.connection_args, "user"))

\* C1: auth(profile="p") ran with no override of user, no "p:keystone.user"
\* and "keystone.user" = "c", and built the client with the default user.
C1_Witness ==
  /\ last.op = "auth"
  /\ last.args.profile = "p"
  /\ "user" \notin DOMAIN last.args.connection_args
  /\ "p:keystone.user" \notin DOMAIN config
  /\ "keystone.user" \in DOMAIN config
  /\ config["keystone.user"] = "c"
  /\ last.ret.client.path = "credentials"
  /\ last.ret.client.kwargs.username = "admin"

\* the get and delete operations that take an identifier or a name
ResolveOps == {"role_get", "service_get", "project_get", "user_get",
               "role_delete", "service_delete", "project_delete", "user_delete"}

KindOf(op) ==
  CASE op \in {"role_get", "role_delete", "role_create"} -> "role"
    [] op \in {"service_get", "service_delete", "service_create"} -> "service"
    [] op \in {"project_get", "project_delete", "project_create"} -> "project"
    [] op \in {"user_get", "user_delete", "user_create"} -> "user"

Collection(R, kind) ==
  CASE kind = "role" -> R.roles
    [] kind = "service" -> R.services
    [] kind = "project" -> R.projects
    [] kind = "user" -> R.users

\* the listing an operation fetches to look a name up: that of the domain
\* for project_get and user_get, the whole one otherwise
Consulted(R, op, args) ==
  IF op \in {"project_get", "user_get"} /\ args.domain # None
    THEN SelectSeq(Collection(R, KindOf(op)), LAMBDA e : e.domain = args.domain)
    ELSE Collection(R, KindOf(op))

Matches(list, name) == {i \in 1..Len(list) : list[i].name = name}

IsListCall(c) == "domain" \in DOMAIN c
\* the get and delete calls of a trace: those made with an identifier
IdCalls(calls) == {i \in DOMAIN calls : "id" \in DOMAIN calls[i]}

C2_Step ==
  LET op == last'.op
      a == last'.args
  IN  (/\ op \in ResolveOps \ {"service_delete"}
       /\ a.id = NoId
       /\ \/ ~Truthy(a.name)
          \/ Matches(Consulted(remote, op, a), a.name) = {})
      => /\ last'.ret = Error("Unable to resolve " \o KindOf(op) \o " id")
         /\ \A i \in DOMAIN last'.calls : IsListCall(last'.calls[i])
         /\ remote' = remote

\* C2: role_get, service_get, project_get, user_get, role_delete,
\* project_delete and user_delete, called with no id and with no name or
\* with a name that matches nothing in the listing, return
\* {'Error': 'Unable to resolve <kind> id'}, raise nothing, make no get or
\* delete call and leave the remote state as it was.
C2_ResolutionFailure == [][C2_Step]_vars

\* C2: role_get(name="n2") ran against a listing that holds a role of
\* another name and returned the resolution failure.
C2_Witness ==
  /\ last.op = "role_get"
  /\ last.args.id = NoId
  /\ last.args.name = "n2"
  /\ remote.roles # <<>>
  /\ Matches(remote.roles, "n2") = {}
  /\ last.ret = Error("Unable to resolve role id")

CreateOps == {"project_create", "service_create", "user_create"}

\* the read-path mapping of an entity: what the get of its kind builds
ReadPath(kind, e) ==
  CASE kind = "project" ->
         [id |-> e.id, name |-> e.name, description |-> e.description,
          enabled |-> e.enabled]
    [] kind = "service" ->
         [id |-> e.id, name |-> e.name, type |-> e.type,
          description |-> e.description]
    [] kind = "user" ->
         [id |-> e.id, name |-> e.name, email |-> e.email, enabled |-> e.enabled]
    [] kind = "role" -> [id |-> e.id, name |-> e.name]

\* what the get of a kind returns for an identifier alone
GetById(R, kind, id) ==
  CASE kind = "project" ->
         project_get(R, id, None, None, None, NoConnectionArgs).ret
    [] kind = "service" -> service_get(R, id, None, None, NoConnectionArgs).ret
    [] kind = "user" -> user_get(R, id, None, None, None, NoConnectionArgs).ret
    [] kind = "role" -> role_get(R, id, None, None, NoConnectionArgs).ret

\* the entity a create call added: the last one listed
Newest(R, kind) == Collection(R, kind)[Len(Collection(R, kind))]

\* C5: project_create(name=n), service_create and user_create return the
\* read-path mapping of the entity just created, obtained by a get on the
\* id the create call returned, and the get of that kind on that id returns
\* a mapping whose name is n.
C5_CreateGetRoundTrip ==
  last.op \in CreateOps =>
    LET kind == KindOf(last.op)
        n == last.args.name
        new == Newest(remote, kind)
    IN  /\ last.ret.kind = "map"
        /\ last.ret.key = n
        /\ last.ret.val = ReadPath(kind, new)
        /\ new.name = n
        /\ Len(last.calls) = 2
        /\ last.calls[2] = Call(kind \o "s.get", new.id)
        /\ GetById(remote, kind, last.ret.val.id).kind = "map"
        /\ GetById(remote, kind, last.ret.val.id).val.name = n
        /\ GetById(remote, kind, last.ret.val.id).val.id = new.id

\* C5: project_create(name="n1") ran in a state that already held a
\* project and returned the mapping of the project it created.
C5_Witness ==
  /\ last.op = "project_create"
  /\ last.args.name = "n1"
  /\ Len(remote.projects) = 2
  /\ last.ret.kind = "map"
  /\ last.ret.val.id = remote.projects[2].id
  /\ last.ret.val.name = "n1"

\* the remote state a delete of a kind leaves, and the value it returns
DeleteOf(R, kind, id, name) ==
  CASE kind = "project" -> project_delete(R, id, name, None, NoConnectionArgs)
    [] kind = "service" -> service_delete(R, id, name, None, NoConnectionArgs)
    [] kind = "user" -> user_delete(R, id, name, None, NoConnectionArgs)
    [] kind = "role" -> role_delete(R, id, name, None, NoConnectionArgs)

\* a create of some kind returned the mapping of a new entity named n with
\* identifier i, and the next call is the delete of that kind by the name n
DeleteByNameAfterCreate ==
  /\ last.op \in CreateOps \cup {"role_create"}
  /\ last.ret.kind = "map"
  /\ last'.op = KindOf(last.op) \o "_delete"
  /\ last'.args.id = NoId
  /\ last'.args.name = last.args.name

\* the entities of the kind just created that carry the name just given
Namesakes == Matches(Collection(remote, KindOf(last.op)), last.args.name)

\* the entity the delete call addressed: the identifier of its get or
\* delete call
Addressed(calls) == {calls[i].id : i \in IdCalls(calls)}

C6_Step ==
  DeleteByNameAfterCreate =>
    LET kind == KindOf(last.op)
        i == last.ret.val.id
        byId == DeleteOf(remote, kind, i, None)
    IN  /\ Addressed(last'.calls) = {i}
        /\ remote' = byId.remote

C6_AmendedStep ==
  DeleteByNameAfterCreate =>
    LET kind == KindOf(last.op)
        list == Collection(remote, kind)
        i == last.ret.val.id
        first == list[CHOOSE k \in Namesakes : \A j \in Namesakes : k <= j].id
        byId == DeleteOf(remote, kind, i, None)
        byFirst == DeleteOf(remote, kind, first, None)
    IN  /\ Cardinality(Namesakes) = 1
             => /\ Addressed(last'.calls) = {i}
                /\ remote' = byId.remote
                /\ kind # "role" => ~Has(Collection(remote', kind), i)
                /\ kind = "role" => remote' = remote /\ Raised(last'.ret)
        /\ Cardinality(Namesakes) > 1
             => /\ first # i
                /\ Addressed(last'.calls) = {first}
                /\ remote' = byFirst.remote
                /\ Has(Collection(remote', kind), i)

FirstMatch(list, name) ==
  list[CHOOSE k \in Matches(list, name) : \A j \in Matches(list, name) : k <= j].id

\* C7 as stated: in the get and delete operations, a supplied identifier is
\* the one used for the remote call, also when a name is supplied with it,
\* and the listing is consulted only when no identifier was supplied.
C7_IdTakesPrecedence ==
  (last.op \in ResolveOps /\ last.args.id # NoId) =>
    /\ \A i \in DOMAIN last.calls : ~IsListCall(last.calls[i])
    /\ Addressed(last.calls) = {last.args.id}

C7_Step ==
  LET op == last'.op
      a == last'.args
      c == last'.calls
      list == Consulted(remote, op, a)
  IN  op \in ResolveOps =>
        \* no name: the listing is not consulted, and the first remote call
        \* is made with the identifier as supplied
        /\ (~Truthy(a.name) /\ a.id # NoId)
             => /\ \A i \in DOMAIN c : ~IsListCall(c[i])
                /\ c # <<>>
                /\ c[1] = Call(KindOf(op) \o "s." \o
                               (IF op = "role_delete" THEN "get"
                                ELSE IF op \in {"service_delete", "project_delete",
                                                "user_delete"}
                                  THEN "delete" ELSE "get"), a.id)
        \* a name: the listing is consulted first, whether or not an
        \* identifier came with it, and a match replaces the identifier
        /\ Truthy(a.name)
             => /\ c # <<>>
                /\ IsListCall(c[1])
                /\ Matches(list, a.name) # {}
                     => Addressed(c) = {FirstMatch(list, a.name)}
                /\ (Matches(list, a.name) = {} /\ a.id # NoId)
                     => IF op = "service_delete"
                          THEN last'.ret = Raise("KeyError") /\ Addressed(c) = {}
                          ELSE Addressed(c) = {a.id}

\* C7, amended: in the get and delete operations of role, service, project
\* and user, the listing is consulted whenever a name is supplied, also
\* when an identifier is supplied with it, and the first entity listed
\* under that name is the one used for the remote call in place of the
\* supplied identifier.  The supplied identifier is used unchanged, with no
\* listing and no check before the first remote call made with it, when no
\* name is supplied; and when the supplied name matches nothing, except in
\* service_delete, which then raises KeyError.
C7_NameTakesPrecedence == [][C7_Step]_vars

\* C7: role_get(role_id=2, name="n1") ran where role 1 is named "n1" and
\* role 2 exists; it listed the roles and fetched role 1.
C7_Witness ==
  /\ last.op = "role_get"
  /\ last.args.id = 2
  /\ last.args.name = "n1"
  /\ Has(remote.roles, 2)
  /\ last.calls = <<ListCall("roles.list", None), Call("roles.get", 1)>>
  /\ last.ret.kind = "map"
  /\ last.ret.val.id = 1

\* services and their endpoints
NextEndpoint ==
  \/ \E name \in Names :
       ServiceCreate(MaxEntities, name, "compute", None, None, NoConnectionArgs)
  \/ \E id \in IdArgs : \E name \in NameArgs :
       ServiceDelete(id, name, None, NoConnectionArgs)
  \/ \E service \in Names :
       EndpointCreate(service, "http://public", "http://internal",
                      "http://admin", "RegionOne", None, NoConnectionArgs)
  \/ \E service \in Names : EndpointDelete(service, None, NoConnectionArgs)
  \/ \E service \in Names : EndpointGet(service, None, NoConnectionArgs)

SpecEndpoint == Init /\ [][NextEndpoint]_vars

C3_Step ==
  LET S == last'.args.service
      named == Matches(remote.services, S)
  IN  (last'.op = "endpoint_delete" /\ named # {}) =>
        /\ ~IsError(last'.ret)
        /\ ~Raised(last'.ret)
        /\ \E k \in named :
             /\ \A j \in named : j <= k
             /\ remote' = [remote EXCEPT !.endpoints =
                             SelectSeq(@, LAMBDA e :
                                e.service_id # remote.services[k].id)]

\* C3: after endpoint_delete(service=S) for an existing service S, no
\* endpoint whose service_id is the id of S remains, however many there
\* were, and every endpoint of any other service is still present (of
\* several services named S, S is the last one listed).
C3_DeletesAllEndpointsOfService == [][C3_Step]_vars

\* C3: endpoint_delete ran for a service that had three endpoints, deleted
\* the three, and the endpoints of another service are still there.
C3_Witness ==
  /\ last.op = "endpoint_delete"
  /\ last.ret = ReturnsTrue
  /\ Cardinality({i \in DOMAIN last.calls :
                    last.calls[i].m = "endpoints.delete"}) = 3
  /\ Len(remote.endpoints) = 3
  /\ Len(remote.services) = 2
  /\ \A i \in 1..3 : \E k \in 1..2 :
       /\ remote.services[k].id = remote.endpoints[i].service_id
       /\ remote.services[k].name # last.args.service

\* users and projects and their updates
NextUpdate ==
  \/ \E name \in Names :
       UserCreate(MaxEntities, name, "pw1", "e1", NoId, None, True, None,
                  NoConnectionArgs)
  \/ \E name \in Names :
       ProjectCreate(MaxEntities, name, "d1", True, None, None, NoConnectionArgs)
  \/ \E id \in IdArgs : \E name \in {None, "n2"} : \E email \in {None, "e2"} :
       \E enabled \in {None, False} :
         UserUpdate(id, name, email, None, enabled, None, NoId, None,
                    NoConnectionArgs)
  \/ \E id \in IdArgs : \E name \in {None, "n2"} :
       \E description \in {None, "d2"} : \E enabled \in {None, False} :
         ProjectUpdate(id, name, description, None, enabled, None,
                       NoConnectionArgs)

SpecUpdate == Init /\ [][NextUpdate]_vars

\* the identifier an update call was delegated with, if one was
UpdatedIds(calls) ==
  {calls[i].id : i \in {j \in IdCalls(calls) :
                          calls[j].m \in {"users.update", "projects.update"}}}

C4_Step ==
  LET op == last'.op
      a == last'.args
      kind == IF op = "user_update" THEN "user" ELSE "project"
      before == Collection(remote, kind)
      after == Collection(remote', kind)
  IN  (op \in {"user_update", "project_update"}
         /\ UpdatedIds(last'.calls) # {}) =>
        \E id \in UpdatedIds(last'.calls) :
          LET old == Entity(before, id)
              new == Entity(after, id)
          IN  /\ UpdatedIds(last'.calls) = {id}
              /\ Has(before, id) /\ Has(after, id)
              /\ new.id = old.id
              /\ a.name = None => new.name = old.name
              /\ a.enabled = None => new.enabled = old.enabled
              /\ a.enabled # None => new.enabled = a.enabled
              /\ a.domain = None => new.domain = old.domain
              /\ kind = "user" =>
                   /\ a.email = None => new.email = old.email
                   /\ a.password = None => new.password = old.password
                   /\ a.project = NoId =>
                        new.default_project = old.default_project
                   /\ new.project_id = old.project_id
              /\ kind = "project" =>
                   (a.description = None => new.description = old.description)
              \* nothing but the target entity changes
              /\ \A k \in 1..Len(before) :
                   before[k].id # id => after[k] = before[k]
              /\ Len(after) = Len(before)
              /\ remote' = [remote EXCEPT ![kind \o "s"] = after]

\* C4: user_update and project_update leave every field of the target
\* entity that the caller did not supply as it was, apply an explicitly
\* supplied enabled=False, and change no other entity.
C4_UnsuppliedFieldsKept == [][C4_Step]_vars

\* C4: user_update(user_id=1, name="n2") ran on an enabled user with email
\* "e1" and left both, and user_update(enabled=False) has been applied to
\* the other user.
C4_Witness ==
  /\ last.op = "user_update"
  /\ last.args.id = 1
  /\ last.args.name = "n2"
  /\ last.args.email = None
  /\ last.args.enabled = None
  /\ last.ret.kind = "str"
  /\ Len(remote.users) = 2
  /\ remote.users[1] = [id |-> 1, name |-> "n2", email |-> "e1",
                        enabled |-> True, password |-> "pw1", domain |-> None,
                        default_project |-> NoId, project_id |-> NoId]
  /\ remote.users[2].enabled = False

\* C8: every operation whose remote calls raised no error returns a mapping
\* or a string, never nothing and never a bare boolean.
C8_ReturnsMappingOrString ==
  (last.op \notin {"none", "auth"} /\ ~RemoteError(last.ret)) =>
    (IsMapping(last.ret) \/ IsString(last.ret))

\* a user, a project and a role side by side, for the role assignments
GrantEntities == MaxEntities + 1

\* how a call designates a user, a project or a role: by nothing, by an
\* identifier, by a name that exists or by a name that matches nothing
Designators == {<<NoId, None>>, <<1, None>>, <<NoId, "n1">>, <<NoId, "n2">>}

\* role assignments and EC2 credentials over users, projects and roles
\* named "n1"
NextGrant ==
  \/ UserCreate(GrantEntities, "n1", "pw1", "e1", NoId, None, True, None,
                NoConnectionArgs)
  \/ ProjectCreate(GrantEntities, "n1", "d1", True, None, None, NoConnectionArgs)
  \/ RoleCreate(GrantEntities, "n1", None, NoConnectionArgs)
  \/ \E u, p, r \in Designators :
       UserRoleAdd(u[1], u[2], p[1], p[2], r[1], r[2], None, NoConnectionArgs)
  \/ \E u, p, r \in Designators :
       UserRoleRemove(u[1], u[2], p[1], p[2], r[1], r[2], None, NoConnectionArgs)
  \/ \E u, p \in Designators :
       Ec2CredentialsCreate(u[1], u[2], p[1], p[2], None, NoConnectionArgs)
  \/ \E u \in Designators : \E access_key \in 1..MaxId :
       Ec2CredentialsDelete(u[1], u[2], access_key, None, NoConnectionArgs)
SpecGrant == Init /\ [][NextGrant]_vars

GrantOps == {"user_role_add", "user_role_remove"}
GrantCalls(calls) ==
  {i \in 1..Len(calls) : calls[i].m \in {"roles.grant", "roles.revoke"}}

\* the entity of a kind that an (id, name) pair of arguments designates:
\* the first one listed under the name, or the one with the identifier
Designated(R, kind, id, name) ==
  LET seq == Collection(R, kind)
  IN  IF name # None
        THEN {seq[i].id : i \in {j \in 1..Len(seq) :
                seq[j].name = name
                  /\ \A k \in 1..(j - 1) : seq[k].name # name}}
        ELSE {seq[i].id : i \in {j \in 1..Len(seq) : seq[j].id = id}}

\* C9: user_role_add and user_role_remove, with each of user, project and
\* role given by id or by name: when all three exist the operation delegates
\* exactly one grant/revoke call with the three resolved ids and returns the
\* confirmation string; when one does not resolve it returns
\* {'Error': 'Unable to resolve <kind> id'}, raises nothing and delegates
\* no grant/revoke call.
C9_ResolvesAllThreeOrReturnsError ==
  LET a == last.args
      u == Designated(remote, "user", a.user_id, a.user)
      p == Designated(remote, "project", a.project_id, a.project)
      r == Designated(remote, "role", a.role_id, a.role)
      given == /\ (a.user # None \/ a.user_id # NoId)
               /\ (a.project # None \/ a.project_id # NoId)
               /\ (a.role # None \/ a.role_id # NoId)
  IN  (last.op \in GrantOps /\ given /\ ~RemoteError(last.ret)) =>
        IF u # {} /\ p # {} /\ r # {}
          THEN /\ IsString(last.ret)
               /\ Cardinality(GrantCalls(last.calls)) = 1
          ELSE /\ IsError(last.ret)
               /\ last.ret.msg \in {"Unable to resolve user id",
                                    "Unable to resolve project id",
                                    "Unable to resolve role id"}
               /\ GrantCalls(last.calls) = {}

Ec2Ops == {"ec2_credentials_create", "ec2_credentials_delete"}
Ec2Calls(calls) ==
  {i \in 1..Len(calls) : calls[i].m \in {"ec2.create", "ec2.delete"}}

\* C10: ec2_credentials_create and ec2_credentials_delete return
\* {'Error': 'Could not resolve <Kind> ID'}, raise nothing and delegate no
\* ec2 call when the user or (for create) the project cannot be resolved,
\* a supplied name that matches no entity included.
C10_UnresolvedReturnsError ==
  LET a == last.args
      nouser == IF a.name # None
                  THEN Designated(remote, "user", NoId, a.name) = {}
                  ELSE a.user_id = NoId
      noproject ==
        /\ last.op = "ec2_credentials_create"
        /\ IF a.project # None
             THEN Designated(remote, "project", NoId, a.project) = {}
             ELSE a.project_id = NoId
  IN  (last.op \in Ec2Ops /\ (nouser \/ noproject)) =>
        /\ IsError(last.ret)
        /\ last.ret.msg \in {"Could not resolve User ID",
                             "Could not resolve Tenant ID"}
        /\ Ec2Calls(last.calls) = {}

\* the operations of the endpoint group that look a service up by name
ByServiceName == {"endpoint_get", "endpoint_delete", "endpoint_create"}

\* the endpoints of a listing that belong to the service with an identifier
EndpointsWith(list, service_id) ==
  SelectSeq(list, LAMBDA e : e.service_id = service_id)

\* what each operation does when the service it works on is the one with
\* identifier sid
C11_Uses(sid) ==
  LET op == last'.op
      without == SelectSeq(remote.endpoints, LAMBDA e : e.service_id # sid)
  IN  /\ op = "endpoint_get" =>
           IF Len(EndpointsWith(remote.endpoints, sid)) = 0
             THEN IsError(last'.ret)
             ELSE last'.ret.kind = "record" /\ last'.ret.val.service_id = sid
      /\ op = "endpoint_delete" =>
           remote' = [remote EXCEPT !.endpoints = without]
      /\ op = "endpoint_create" =>
           /\ Len(EndpointsWith(remote'.endpoints, sid))
                = Len(EndpointsWith(remote.endpoints, sid)) + 3
           /\ last'.ret.kind = "record" /\ last'.ret.val.service_id = sid

C11_Step ==
  (last'.op \in ByServiceName
     /\ Matches(remote.services, last'.args.service) # {}) =>
    C11_Uses(FirstMatch(remote.services, last'.args.service))

\* C11: in every operation that looks a service up by name (endpoint_get,
\* endpoint_delete, endpoint_create), when several services carry the name
\* the service used is the first one in the remote listing order.
C11_FirstListedIsUsed == [][C11_Step]_vars

GetOps == {"role_get", "service_get", "project_get", "user_get"}

\* the identifiers a get operation asked the remote service for that the
\* remote service does not hold
MissingAsked(R, op, calls) ==
  {calls[i].id : i \in {j \in IdCalls(calls) :
                          ~Has(Collection(R, KindOf(op)), calls[j].id)}}

C12_Step ==
  LET op == last'.op
      missing == MissingAsked(remote, op, last'.calls)
  IN  (op \in GetOps /\ missing # {}) =>
        /\ remote' = remote
        /\ \E id \in missing :
             /\ missing = {id}
             /\ IF op = "user_get"
                  THEN /\ IsError(last'.ret)
                       /\ last'.ret.msg = "Could not find user '" \o ToString(id) \o "'"
                  ELSE last'.ret = Raise("NotFound")

\* C12: user_get on an identifier the remote service reports as not found
\* returns {'Error': "Could not find user '<id>'"} instead of raising and
\* leaves the remote state unchanged; role_get, service_get and project_get
\* on a missing identifier propagate the remote not-found error.
C12_OnlyUserGetCatchesNotFound == [][C12_Step]_vars

\* C12: user_get(user_id=3) on a remote service that holds users but not
\* user 3 has returned the Error mapping.
C12_Witness ==
  /\ last.op = "user_get"
  /\ last.args.id = 3
  /\ last.ret = Error("Could not find user '3'")
  /\ Len(remote.users) > 0
  /\ ~Has(remote.users, 3)

\* C13: each service has at most three endpoint records and at most one per
\* interface (public, internal, admin); a second endpoint_create for a
\* service that already has endpoints adds no duplicate record.
C13_AtMostOneEndpointPerInterface ==
  \A sid \in Ids :
    /\ Len(EndpointsWith(remote.endpoints, sid)) <= 3
    /\ \A interface \in Interfaces :
         Len(SelectSeq(EndpointsWith(remote.endpoints, sid),
                       LAMBDA e : e.interface = interface)) <= 1

(***************************************************************************)
(* endpoint_create round trip by round trip (lines 311-319), with the      *)
(* operations of other callers running between its remote calls.           *)
(***************************************************************************)
\* lines 311-316: auth, service_get and the unused endpoint_get.  A failed
\* lookup returns at once (line 315); otherwise the caller holds
\* keystone_service and goes on to the loop of line 317, whose walk is
\* order.  held tells, for each creation call delegated so far, whether the
\* remote service still held the service at that moment.
EndpointCreateLookup(service, publicurl, internalurl, adminurl, region, profile, ca) ==
  /\ pending = Idle
  /\ remote.next.endpoints + 2 <= MaxEndpointId
  /\ LET ks == service_get(remote, NoId, service, profile, ca)
         auths == <<AuthRec(profile, ca)>> \o ks.auths
     IN  IF Raised(ks.ret) \/ HasErrorKey(ks.ret)
           THEN Do("endpoint_create", [service |-> service],
                   Res(remote,
                       IF Raised(ks.ret) THEN ks.ret
                       ELSE Error("Could not find the specified service"),
                       ks.calls, auths))
           ELSE \E order \in InterfaceOrders :
                  \E pick0 \in EndpointPicks(remote, service) :
                    LET ep == endpoint_get(remote, service, profile, ca, pick0)
                    IN  /\ pending' =
                             [pc |-> "create", service |-> service,
                              keystone_service |-> ks.ret,
                              url |-> [public |-> publicurl, admin |-> adminurl,
                                       internal |-> internalurl],
                              region |-> region, order |-> order,
                              profile |-> profile, connection_args |-> ca,
                              calls |-> ks.calls \o ep.calls,
                              auths |-> auths \o ep.auths,
                              held |-> <<>>]
                        /\ UNCHANGED <<config, remote, last>>

\* line 318: one kstone.endpoints.create of the loop
EndpointCreateCall ==
  /\ pending.pc = "create"
  /\ Len(pending.held) < 3
  /\ LET interface == pending.order[Len(pending.held) + 1]
         sid == endpoint_create_service_id(pending.keystone_service,
                                           pending.service)
     IN  /\ remote' = endpoints_create(remote, sid, pending.url[interface],
                                       interface, pending.region)
         /\ pending' =
              [pending EXCEPT
                 !.calls = Append(@, [m |-> "endpoints.create",
                                      service_id |-> sid,
                                      interface |-> interface]),
                 !.held = Append(@, Has(remote.services, sid))]
  /\ UNCHANGED <<config, last>>

\* line 319: return endpoint_get(service, profile, **connection_args)
EndpointCreateReturn ==
  /\ pending.pc = "create"
  /\ Len(pending.held) = 3
  /\ \E pick \in EndpointPicks(remote, pending.service) :
       LET g == endpoint_get(remote, pending.service, pending.profile,
                             pending.connection_args, pick)
       IN  last' = [op |-> "endpoint_create",
                    args |-> [service |-> pending.service],
                    ret |-> g.ret,
                    calls |-> pending.calls \o g.calls,
                    auths |-> pending.auths \o g.auths]
  /\ pending' = Idle
  /\ UNCHANGED <<config, remote>>

\* one caller's endpoint_create, step by step, among the service_create and
\* service_delete calls of other callers
NextRace ==
  \/ \E name \in Names :
       ServiceCreate(MaxEntities, name, "compute", None, None, NoConnectionArgs)
  \/ \E name \in Names : ServiceDelete(NoId, name, None, NoConnectionArgs)
  \/ \E service \in Names :
       EndpointCreateLookup(service, "http://public", "http://internal",
                            "http://admin", "RegionOne", None, NoConnectionArgs)
  \/ EndpointCreateCall
  \/ EndpointCreateReturn

SpecRace == Init /\ [][NextRace]_vars

\* the identifier endpoint_create found at its lookup
LookedUp == pending.keystone_service.val.id

C14_Step ==
  (pending.pc = "create" /\ remote' # remote /\ pending' # pending
     /\ pending'.pc = "create") =>
    /\ Len(remote'.endpoints) = Len(remote.endpoints) + 1
    /\ remote'.endpoints[Len(remote'.endpoints)].service_id = LookedUp
    /\ SubSeq(remote'.endpoints, 1, Len(remote.endpoints)) = remote.endpoints
    /\ remote'.services = remote.services

\* C14: endpoint_create is not atomic across its round trips: each of its
\* creation calls is delegated with the service identifier found at the
\* lookup, whether or not the remote service still holds that service, so a
\* service_delete that comes between the lookup and the creation calls
\* leaves endpoints whose service_id names no service.
C14_CreatesForLookedUpService == [][C14_Step]_vars

\* C14: the service was deleted after the lookup and before the first
\* creation call, the three creation calls went through, and the remote
\* service holds three endpoints of a service it no longer holds.
C14_Witness ==
  /\ pending.pc = "create"
  /\ pending.held = <<FALSE, FALSE, FALSE>>
  /\ ~Has(remote.services, LookedUp)
  /\ Len(EndpointsWith(remote.endpoints, LookedUp)) = 3
  /\ last.op = "service_delete"
  /\ IsString(last.ret)

\* role names a caller may pass: 'Error' is a name like any other
RoleNames == {"n1", "n2", "Error"}

\* role_create and role_delete, each run to completion
NextRole ==
  \/ \E name \in RoleNames : RoleCreate(MaxEntities, name, None, NoConnectionArgs)
  \/ \E id \in IdArgs : \E name \in RoleNames \cup {None} :
       RoleDelete(id, name, None, NoConnectionArgs)

SpecRole == Init /\ [][NextRole]_vars

PairwiseDistinctNames(list) ==
  \A i, j \in 1..Len(list) : i # j => list[i].name # list[j].name

C15_Step ==
  /\ (last'.op = "role_create" /\ HasName(remote.roles, last'.args.name)) =>
       /\ last'.ret = Error("Role \"" \o last'.args.name \o "\" already exists")
       /\ remote' = remote
  /\ PairwiseDistinctNames(remote.roles) => PairwiseDistinctNames(remote'.roles)

\* C15: role_create(name) on a remote state that already holds a role with
\* that name returns {'Error': 'Role "<name>" already exists'} and creates
\* nothing, so role names stay pairwise distinct through any sequence of
\* role_create and role_delete calls.
C15_RoleNamesStayDistinct == [][C15_Step]_vars

\* C16: whenever a public operation, run without interleaving, returns a
\* mapping with the key 'Error', the remote state is the same as before the
\* call.
C16_ErrorLeavesRemoteUnchanged ==
  [][HasErrorKey(last'.ret) => remote' = remote]_vars

\* the connection overrides a caller passes: none, or connection_user
Overrides == {NoConnectionArgs, [k \in {"user"} |-> OverrideValue]}

\* how a call of the profile runs designates a user or a project
ByNameOrId == {<<NoId, "n1">>, <<1, None>>}

\* operations with nested lookups, called under every profile and override
NextProfile ==
  \/ UserCreate(GrantEntities, "n1", "pw1", "e1", NoId, None, True, None,
                NoConnectionArgs)
  \/ ProjectCreate(GrantEntities, "n1", "d1", True, None, None, NoConnectionArgs)
  \/ \E profile \in Profiles : \E ca \in Overrides :
       RoleCreate(GrantEntities, "n1", profile, ca)
  \/ \E profile \in Profiles : \E ca \in Overrides :
       ServiceCreate(GrantEntities, "n1", "compute", None, profile, ca)
  \/ \E profile \in Profiles : \E ca \in Overrides :
       EndpointGet("n1", profile, ca)
  \/ \E profile \in Profiles : \E ca \in Overrides :
       \E u, p \in ByNameOrId : \E r \in Designators :
         UserRoleAdd(u[1], u[2], p[1], p[2], r[1], r[2], profile, ca)
  \/ \E profile \in Profiles : \E ca \in Overrides :
       \E u, p \in ByNameOrId : \E r \in Designators :
         UserRoleRemove(u[1], u[2], p[1], p[2], r[1], r[2], profile, ca)
  \/ \E profile \in Profiles : \E ca \in Overrides : \E u, p \in ByNameOrId :
       Ec2CredentialsCreate(u[1], u[2], p[1], p[2], profile, ca)
  \/ \E profile \in Profiles : \E ca \in Overrides : \E u \in ByNameOrId :
       Ec2CredentialsDelete(u[1], u[2], 1, profile, ca)

SpecProfile == Init /\ [][NextProfile]_vars

\* C17: within one public operation called with profile p and overrides c,
\* every authentication performed, those of the nested get and list
\* operations included, uses the same profile p and the same overrides c.
\* The first authentication of an operation is its own auth(profile,
\* **connection_args).
C17_NestedAuthsUseCallersProfile ==
  (last.op # "none" /\ Len(last.auths) > 0) =>
    \A i \in 1..Len(last.auths) : last.auths[i] = last.auths[1]

=============================================================================
